---- MODULE Spec2Model ----
(***************************************************************************)
(* The FAQ generator of smart-faq-generator (src/faqGenerator.js) and the   *)
(* document store of its server (src/server.js) as state machines.  A      *)
(* JavaScript string is a sequence of one-character strings; every string  *)
(* operation of the source (regular expressions, split, trim, toLowerCase, *)
(* includes) is an operator that computes what the source computes on such *)
(* a sequence.                                                             *)
(***************************************************************************)
EXTENDS Naturals, Sequences, FiniteSets, TLC

VARIABLES
    text,       \* the argument of generateFAQs: [kind, chars]
    pc,         \* the position of the call inside generateFAQs
    sentences,  \* const sentences (faqGenerator.js:47)
    keywords,   \* const keywords  (faqGenerator.js:48)
    topics,     \* const topics    (faqGenerator.js:49)
    faqs,       \* const faqs      (faqGenerator.js:51), the candidates so far
    result,     \* the value generateFAQs returns
    generator,  \* const faqGenerator (server.js:19): the fields of the instance
    calls,      \* the calls made on the instance so far: argument and returned value
    memo,       \* what a new instance returns for the arguments of the handlers
    documents,  \* const documents (server.js:22): the Map, in insertion order
    files,      \* the uploads directory: the file stored under each path
    now,        \* the clock new Date() reads, in milliseconds
    nextId,     \* the documents created so far: uuidv4() of server.js:108,158
    nextFile,   \* the files received so far: uuidv4() of server.js:36
    response    \* the response to the last request

\* the instance and the calls made on it
instance == <<generator, calls, memo>>

\* the state of the server
store == <<documents, files, now, nextId, nextFile, response>>

vars == <<text, pc, sentences, keywords, topics, faqs, result, instance, store>>

-----------------------------------------------------------------------------
(* Characters and character classes of the regular expressions.            *)

NL == "\n"
LowerSeq ==
    << "a","b","c","d","e","f","g","h","i","j","k","l","m",
       "n","o","p","q","r","s","t","u","v","w","x","y","z" >>
UpperSeq ==
    << "A","B","C","D","E","F","G","H","I","J","K","L","M",
       "N","O","P","Q","R","S","T","U","V","W","X","Y","Z" >>
DigitSeq == << "0","1","2","3","4","5","6","7","8","9" >>

\* [a-z], [A-Z], \d, \s, \w and the delimiters [.!?]
LowerSet == { LowerSeq[i] : i \in 1..Len(LowerSeq) }
UpperSet == { UpperSeq[i] : i \in 1..Len(UpperSeq) }
DigitSet == { DigitSeq[i] : i \in 1..Len(DigitSeq) }
WhiteSpace == { " ", NL, "\t", "\r" }
WordChars == LowerSet \cup UpperSet \cup DigitSet \cup { "_" }
Terminators == { ".", "!", "?" }

LowerOf == [ c \in UpperSet |-> LowerSeq[CHOOSE i \in 1..Len(UpperSeq) : UpperSeq[i] = c] ]
UpperOf == [ c \in LowerSet |-> UpperSeq[CHOOSE i \in 1..Len(LowerSeq) : LowerSeq[i] = c] ]
DigitVal == [ c \in DigitSet |-> (CHOOSE i \in 1..Len(DigitSeq) : DigitSeq[i] = c) - 1 ]

\* String.prototype.toLowerCase / toUpperCase on one character
toLowerChar(c) == IF c \in UpperSet THEN LowerOf[c] ELSE c
toUpperChar(c) == IF c \in LowerSet THEN UpperOf[c] ELSE c

\* String.prototype.toLowerCase
toLowerCase(s) == [ i \in 1..Len(s) |-> toLowerChar(s[i]) ]

\* String.prototype.trim
trim(s) ==
    LET solid == { i \in 1..Len(s) : s[i] \notin WhiteSpace }
    IN  IF solid = {} THEN <<>>
        ELSE SubSeq(s, CHOOSE i \in solid : \A j \in solid : i <= j,
                       CHOOSE i \in solid : \A j \in solid : j <= i)

\* String.prototype.includes
includes(hay, needle) ==
    \E i \in 0..(Len(hay) - Len(needle)) :
        \A k \in 1..Len(needle) : hay[i + k] = needle[k]

\* Array.prototype.includes
arrayIncludes(arr, x) == \E i \in 1..Len(arr) : arr[i] = x

\* Array.prototype.slice(0, n)
slice0(arr, n) == SubSeq(arr, 1, IF Len(arr) < n THEN Len(arr) ELSE n)

\* Array.prototype.join
RECURSIVE join(_, _)
join(arr, sep) ==
    IF arr = <<>> THEN <<>>
    ELSE IF Len(arr) = 1 THEN arr[1]
    ELSE arr[1] \o sep \o join(Tail(arr), sep)

\* the elements of a finite set of numbers in ascending order
ascending(S) ==
    [ k \in 1..Cardinality(S) |->
        CHOOSE i \in S : Cardinality({ j \in S : j < i }) = k - 1 ]

\* s.replace(/c+/g, r) for a character class c and a character r: every
\* maximal run of characters of `class' becomes r
replaceRuns(s, class, r) ==
    LET marked == [ i \in 1..Len(s) |->
                      [ c |-> IF s[i] \in class THEN r ELSE s[i],
                        keep |-> ~(s[i] \in class /\ i > 1 /\ s[i - 1] \in class) ] ]
        kept == SelectSeq(marked, LAMBDA m : m.keep)
    IN  [ i \in 1..Len(kept) |-> kept[i].c ]

\* s.split(/c+/) for a character class c: the pieces between the maximal
\* runs of `class', the leading and the trailing piece included when empty
splitRuns(s, class) ==
    LET n == Len(s)
        starts == ascending({ i \in 1..n : s[i] \notin class /\ (i = 1 \/ s[i - 1] \in class) })
        ends == ascending({ i \in 1..n : s[i] \notin class /\ (i = n \/ s[i + 1] \in class) })
        inner == [ k \in 1..Len(starts) |-> SubSeq(s, starts[k], ends[k]) ]
        leading == IF n = 0 \/ s[1] \in class THEN << <<>> >> ELSE <<>>
        trailing == IF n > 0 /\ s[n] \in class THEN << <<>> >> ELSE <<>>
    IN  leading \o inner \o trailing

\* \b at the gap before position i of s (1 <= i <= Len(s) + 1)
wordBoundary(s, i) ==
    LET before == i > 1 /\ s[i - 1] \in WordChars
        after  == i <= Len(s) /\ s[i] \in WordChars
    IN  before # after

\* /\b(w1|w2|...)\b/i.test(s): some alternative occurs in s, compared
\* case-insensitively, between two word boundaries
testWords(s, words) ==
    LET low == toLowerCase(s)
    IN  \E n \in 1..Len(words) :
            \E i \in 0..(Len(s) - Len(words[n])) :
                /\ \A k \in 1..Len(words[n]) : low[i + k] = words[n][k]
                /\ wordBoundary(s, i + 1)
                /\ wordBoundary(s, i + Len(words[n]) + 1)

\* this.stopWords (faqGenerator.js:21-34)
stopWords ==
    { <<"a">>, <<"a","n">>, <<"t","h","e">>, <<"i","s">>, <<"a","r","e">>, <<"w","a","s">>,
    <<"w","e","r","e">>, <<"b","e">>, <<"b","e","e","n">>, <<"b","e","i","n","g">>,
    <<"h","a","v","e">>, <<"h","a","s">>, <<"h","a","d">>, <<"d","o">>, <<"d","o","e","s">>,
    <<"d","i","d">>, <<"w","i","l","l">>, <<"w","o","u","l","d">>, <<"c","o","u","l","d">>,
    <<"s","h","o","u","l","d">>, <<"m","a","y">>, <<"m","i","g","h","t">>, <<"m","u","s","t">>,
    <<"s","h","a","l","l">>, <<"c","a","n">>, <<"n","e","e","d">>, <<"d","a","r","e">>,
    <<"o","u","g","h","t">>, <<"u","s","e","d">>, <<"t","o">>, <<"o","f">>, <<"i","n">>,
    <<"f","o","r">>, <<"o","n">>, <<"w","i","t","h">>, <<"a","t">>, <<"b","y">>,
    <<"f","r","o","m">>, <<"a","s">>, <<"i","n","t","o">>, <<"t","h","r","o","u","g","h">>,
    <<"d","u","r","i","n","g">>, <<"b","e","f","o","r","e">>, <<"a","f","t","e","r">>,
    <<"a","b","o","v","e">>, <<"b","e","l","o","w">>, <<"b","e","t","w","e","e","n">>,
    <<"u","n","d","e","r">>, <<"a","g","a","i","n">>, <<"f","u","r","t","h","e","r">>,
    <<"t","h","e","n">>, <<"o","n","c","e">>, <<"h","e","r","e">>, <<"t","h","e","r","e">>,
    <<"w","h","e","n">>, <<"w","h","e","r","e">>, <<"w","h","y">>, <<"h","o","w">>,
    <<"a","l","l">>, <<"e","a","c","h">>, <<"f","e","w">>, <<"m","o","r","e">>,
    <<"m","o","s","t">>, <<"o","t","h","e","r">>, <<"s","o","m","e">>, <<"s","u","c","h">>,
    <<"n","o">>, <<"n","o","r">>, <<"n","o","t">>, <<"o","n","l","y">>, <<"o","w","n">>,
    <<"s","a","m","e">>, <<"s","o">>, <<"t","h","a","n">>, <<"t","o","o">>, <<"v","e","r","y">>,
    <<"j","u","s","t">>, <<"a","n","d">>, <<"b","u","t">>, <<"i","f">>, <<"o","r">>,
    <<"b","e","c","a","u","s","e">>, <<"u","n","t","i","l">>, <<"w","h","i","l","e">>,
    <<"t","h","i","s">>, <<"t","h","a","t">>, <<"t","h","e","s","e">>, <<"t","h","o","s","e">>,
    <<"i">>, <<"m","e">>, <<"m","y">>, <<"m","y","s","e","l","f">>, <<"w","e">>,
    <<"o","u","r">>, <<"y","o","u">>, <<"y","o","u","r">>, <<"h","e">>, <<"h","i","m">>,
    <<"h","i","s">>, <<"s","h","e">>, <<"h","e","r">>, <<"i","t">>, <<"i","t","s">>,
    <<"t","h","e","y">>, <<"t","h","e","m">>, <<"t","h","e","i","r">>, <<"w","h","a","t">>,
    <<"w","h","i","c","h">>, <<"w","h","o">> }

\* processIndicators (faqGenerator.js:165)
processIndicators ==
    << <<"s","t","e","p">>, <<"p","r","o","c","e","s","s">>, <<"m","e","t","h","o","d">>,
    <<"w","a","y">>, <<"a","p","p","r","o","a","c","h">>,
    <<"p","r","o","c","e","d","u","r","e">>, <<"g","u","i","d","e">>,
    <<"t","u","t","o","r","i","a","l">>, <<"i","n","s","t","r","u","c","t","i","o","n">> >>

\* featureIndicators (faqGenerator.js:202)
featureIndicators ==
    << <<"f","e","a","t","u","r","e">>, <<"c","a","p","a","b","i","l","i","t","y">>,
    <<"f","u","n","c","t","i","o","n">>, <<"o","p","t","i","o","n">>,
    <<"i","n","c","l","u","d","e">>, <<"p","r","o","v","i","d","e">>, <<"o","f","f","e","r">>,
    <<"s","u","p","p","o","r","t">>, <<"e","n","a","b","l","e">>, <<"a","l","l","o","w">> >>

\* benefitIndicators (faqGenerator.js:223)
benefitIndicators ==
    << <<"b","e","n","e","f","i","t">>, <<"a","d","v","a","n","t","a","g","e">>,
    <<"i","m","p","r","o","v","e">>, <<"h","e","l","p">>, <<"s","a","v","e">>,
    <<"i","n","c","r","e","a","s","e">>, <<"r","e","d","u","c","e">>,
    <<"b","e","t","t","e","r">>, <<"e","f","f","i","c","i","e","n","t">>,
    <<"e","f","f","e","c","t","i","v","e">> >>

\* canIndicators (faqGenerator.js:246)
canIndicators ==
    << <<"c","a","n">>, <<"a","b","l","e">>, <<"p","o","s","s","i","b","l","e">>,
    <<"s","u","p","p","o","r","t">>, <<"a","l","l","o","w">> >>

\* requireIndicators (faqGenerator.js:259)
requireIndicators ==
    << <<"r","e","q","u","i","r","e">>, <<"n","e","e","d">>, <<"m","u","s","t">>,
    <<"n","e","c","e","s","s","a","r","y">>, <<"p","r","e","r","e","q","u","i","s","i","t","e">>
    >>

\* the literal alternatives of stepPattern (faqGenerator.js:184)
stepWords ==
    << <<"f","i","r","s","t">>, <<"s","e","c","o","n","d">>, <<"t","h","i","r","d">>,
    <<"t","h","e","n">>, <<"n","e","x","t">>, <<"f","i","n","a","l","l","y">> >>

\* the alternatives of the location pattern (faqGenerator.js:273)
locationWords ==
    << <<"f","i","n","d">>, <<"l","o","c","a","t","e">>, <<"a","c","c","e","s","s">>,
    <<"a","v","a","i","l","a","b","l","e">>, <<"d","o","w","n","l","o","a","d">> >>

\* the "step " prefix of the alternative step \d+ (faqGenerator.js:184)
StepSpace == <<"s","t","e","p"," ">>
\* how a template literal renders an undefined value
Undefined == <<"u","n","d","e","f","i","n","e","d">>
\* the joiner of multi-sentence answers (faqGenerator.js:190,211,232)
JoinSep == <<"."," ">>
\* question templates (faqGenerator.js:151-278)
WhatIs == <<"W","h","a","t"," ","i","s"," ">>
HowDoes == <<"H","o","w"," ","d","o","e","s"," ">>
Work == <<" ","w","o","r","k","?">>
GetStarted == <<"H","o","w"," ","d","o"," ","I"," ","g","e","t"," ","s","t","a","r","t","e","d"," ","w","i","t","h"," ">>
WhatFeatures == <<"W","h","a","t"," ","f","e","a","t","u","r","e","s"," ","d","o","e","s"," ">>
Offer == <<" ","o","f","f","e","r","?">>
WhyUse == <<"W","h","y"," ","s","h","o","u","l","d"," ","I"," ","u","s","e"," ">>
CanCustomize == <<"C","a","n"," ","I"," ","c","u","s","t","o","m","i","z","e"," ">>
Requirements == <<"W","h","a","t"," ","a","r","e"," ","t","h","e"," ","r","e","q","u","i","r","e","m","e","n","t","s"," ","f","o","r"," ">>
WhereFind == <<"W","h","e","r","e"," ","c","a","n"," ","I"," ","f","i","n","d"," ","m","o","r","e"," ","i","n","f","o","r","m","a","t","i","o","n"," ","a","b","o","u","t"," ">>
QMark == <<"?">>
-----------------------------------------------------------------------------
(* extractSentences (faqGenerator.js:82-88)                                *)

\* the pieces kept as they are split, white space at their ends included
extractSentencesUntrimmed(t) ==
    LET joined == replaceRuns(t, {NL}, " ")
        pieces == splitRuns(joined, Terminators)
    IN  SelectSeq(pieces, LAMBDA s : Len(s) > 20)

\* the sentences with a full stop of their own at the end
extractSentencesWithStop(t) ==
    LET joined == replaceRuns(t, {NL}, " ")
        pieces == splitRuns(joined, Terminators)
        trimmed == [ i \in 1..Len(pieces) |-> trim(pieces[i]) \o <<".">> ]
    IN  SelectSeq(trimmed, LAMBDA s : Len(s) > 21)

extractSentences(t) ==
    LET joined == replaceRuns(t, {NL}, " ")            \* .replace(/\n+/g, ' ')
        pieces == splitRuns(joined, Terminators)     \* .split(/[.!?]+/)
        trimmed == [ i \in 1..Len(pieces) |-> trim(pieces[i]) ]
    IN  SelectSeq(trimmed, LAMBDA s : Len(s) > 20)

-----------------------------------------------------------------------------
(* extractKeywords (faqGenerator.js:93-110)                                *)

\* .replace(/[^a-zA-Z0-9\s]/g, ' ')
stripPunctuation(s) ==
    [ i \in 1..Len(s) |->
        IF s[i] \in LowerSet \cup UpperSet \cup DigitSet \cup WhiteSpace
        THEN s[i] ELSE " " ]

\* the same filter without the stop-word test
keywordTokensNoStop(t) ==
    SelectSeq(splitRuns(stripPunctuation(toLowerCase(t)), WhiteSpace),
              LAMBDA word : Len(word) > 3)

\* the filtered word list `words' (faqGenerator.js:94-97)
keywordTokens(t) ==
    SelectSeq(splitRuns(stripPunctuation(toLowerCase(t)), WhiteSpace),
              LAMBDA word : Len(word) > 3 /\ word \notin stopWords)

\* words.forEach(word => wordCount[word] = (wordCount[word] || 0) + 1):
\* the own properties of wordCount in the order of their creation
countWords(words) ==
    LET first == ascending({ i \in 1..Len(words) : \A j \in 1..(i - 1) : words[j] # words[i] })
    IN  [ k \in 1..Len(first) |->
            [ word |-> words[first[k]],
              count |-> Cardinality({ j \in 1..Len(words) : words[j] = words[first[k]] }) ] ]

\* lexicographic order of two digit strings of the same length
RECURSIVE digitsLess(_, _, _)
digitsLess(a, b, i) ==
    IF i > Len(a) THEN FALSE
    ELSE IF a[i] = b[i] THEN digitsLess(a, b, i + 1)
    ELSE DigitVal[a[i]] < DigitVal[b[i]]

\* numeric order of two canonical digit strings
numericLess(a, b) == Len(a) < Len(b) \/ (Len(a) = Len(b) /\ digitsLess(a, b, 1))

\* 2^32 - 2, the largest array index
MaxArrayIndex == <<"4","2","9","4","9","6","7","2","9","4">>

\* a property key that is an array index (a canonical numeric string up to
\* 2^32 - 2): an object enumerates these first, in ascending numeric order
isArrayIndex(w) ==
    /\ w # <<>>
    /\ \A i \in 1..Len(w) : w[i] \in DigitSet
    /\ (Len(w) = 1 \/ w[1] # "0")
    /\ ~numericLess(MaxArrayIndex, w)

\* the array-index keys in ascending numeric order
sortIndexKeys(entries) ==
    [ k \in 1..Len(entries) |->
        entries[CHOOSE i \in 1..Len(entries) :
            Cardinality({ j \in 1..Len(entries) :
                numericLess(entries[j].word, entries[i].word) }) = k - 1] ]

\* Object.entries(wordCount): array-index keys in ascending numeric order,
\* then the other keys in the order of their creation
objectEntries(wordCount) ==
    sortIndexKeys(SelectSeq(wordCount, LAMBDA e : isArrayIndex(e.word)))
    \o SelectSeq(wordCount, LAMBDA e : ~isArrayIndex(e.word))

\* .sort((a, b) => b[1] - a[1]): a stable sort by descending count; an entry
\* comes after the entries that count more and after the earlier entries
\* that count the same
sortByCount(entries) ==
    [ k \in 1..Len(entries) |->
        entries[CHOOSE i \in 1..Len(entries) :
            Cardinality({ j \in 1..Len(entries) :
                \/ entries[j].count > entries[i].count
                \/ (entries[j].count = entries[i].count /\ j < i) }) = k - 1] ]

extractKeywords(t) ==
    LET wordCount == countWords(keywordTokens(t))
        top == slice0(sortByCount(objectEntries(wordCount)), 15)
    IN  [ i \in 1..Len(top) |-> top[i].word ]

\* `words' when this.stopWords is the set of the instance gen
keywordTokensOf(gen, t) ==
    SelectSeq(splitRuns(stripPunctuation(toLowerCase(t)), WhiteSpace),
              LAMBDA word : Len(word) > 3 /\ word \notin gen.stopWords)

\* extractKeywords called on the instance gen
extractKeywordsOf(gen, t) ==
    LET wordCount == countWords(keywordTokensOf(gen, t))
        top == slice0(sortByCount(objectEntries(wordCount)), 15)
    IN  [ i \in 1..Len(top) |-> top[i].word ]

-----------------------------------------------------------------------------
(* identifyTopics (faqGenerator.js:115-136)                                *)

\* the last position of the run [a-z]* that starts at position i
RECURSIVE lowerRunEnd(_, _)
lowerRunEnd(s, i) ==
    IF i <= Len(s) /\ s[i] \in LowerSet THEN lowerRunEnd(s, i + 1) ELSE i - 1

\* the last position of the run \s* that starts at position i
RECURSIVE spaceRunEnd(_, _)
spaceRunEnd(s, i) ==
    IF i <= Len(s) /\ s[i] \in WhiteSpace THEN spaceRunEnd(s, i + 1) ELSE i - 1

\* [A-Z][a-z]+ at position i: the last position it matches, 0 when it fails
capWordEnd(s, i) ==
    IF i <= Len(s) /\ s[i] \in UpperSet /\ lowerRunEnd(s, i + 1) > i
    THEN lowerRunEnd(s, i + 1) ELSE 0

\* (?:\s+[A-Z][a-z]+)* after a word ending at e: the ends of the words the
\* greedy repetition takes, one per iteration
RECURSIVE capChain(_, _)
capChain(s, e) ==
    LET w == spaceRunEnd(s, e + 1)
        n == IF w > e THEN capWordEnd(s, w + 1) ELSE 0
    IN  IF n = 0 THEN <<>> ELSE <<n>> \o capChain(s, n)

\* /\b[A-Z][a-z]+(?:\s+[A-Z][a-z]+)*\b/ tried at position i: the last
\* position of the match, 0 when it fails; the match takes the most
\* iterations after which the closing \b holds
capMatchEnd(s, i) ==
    LET e1 == IF wordBoundary(s, i) THEN capWordEnd(s, i) ELSE 0
        ends == IF e1 = 0 THEN <<>> ELSE <<e1>> \o capChain(s, e1)
        ok == { k \in 1..Len(ends) : wordBoundary(s, ends[k] + 1) }
    IN  IF ok = {} THEN 0 ELSE ends[CHOOSE k \in ok : \A j \in ok : j <= k]

\* text.match(/\b[A-Z][a-z]+(?:\s+[A-Z][a-z]+)*\b/g) || []: the matches left
\* to right, each search resuming after the previous match (a position
\* inside a match starts no match of its own)
matchCapitalized(s) ==
    LET tries == { i \in 1..Len(s) : capMatchEnd(s, i) # 0 }
        starts == ascending({ i \in tries :
                      ~\E j \in tries : j < i /\ capMatchEnd(s, j) >= i })
    IN  [ k \in 1..Len(starts) |-> SubSeq(s, starts[k], capMatchEnd(s, starts[k])) ]

\* matches.forEach(...) (faqGenerator.js:122-126)
RECURSIVE pushMatches(_, _)
pushMatches(matches, tps) ==
    IF matches = <<>> THEN tps
    ELSE LET match == Head(matches)
         IN  pushMatches(Tail(matches),
                 IF Len(match) > 3 /\ ~arrayIncludes(tps, toLowerCase(match))
                 THEN Append(tps, match) ELSE tps)

\* keywords.slice(0, 5).forEach(...) (faqGenerator.js:129-133)
RECURSIVE pushKeywords(_, _)
pushKeywords(kws, tps) ==
    IF kws = <<>> THEN tps
    ELSE LET keyword == Head(kws)
         IN  pushKeywords(Tail(kws),
                 IF ~\E i \in 1..Len(tps) : toLowerCase(tps[i]) = keyword
                 THEN Append(tps, keyword) ELSE tps)

\* the same with the two loops in the other order
identifyTopicsKeywordsFirst(t, kws) ==
    slice0(pushMatches(matchCapitalized(t), pushKeywords(slice0(kws, 5), <<>>)), 8)

identifyTopics(t, kws) ==
    slice0(pushKeywords(slice0(kws, 5), pushMatches(matchCapitalized(t), <<>>)), 8)

-----------------------------------------------------------------------------
(* cleanAnswer (faqGenerator.js:289-307)                                   *)

\* the same without the capitalization of faqGenerator.js:297-299
\* the full stop added whatever the text ends with
cleanAnswerAlwaysStop(t) ==
    IF t = <<>> THEN <<>>
    ELSE LET cleaned == trim(replaceRuns(t, WhiteSpace, " "))
             capital == IF Len(cleaned) > 0
                        THEN <<toUpperChar(cleaned[1])>> \o Tail(cleaned)
                        ELSE cleaned
         IN  capital \o <<".">>

cleanAnswerNoCapital(t) ==
    IF t = <<>> THEN <<>>
    ELSE LET cleaned == trim(replaceRuns(t, WhiteSpace, " "))
         IN  IF cleaned # <<>> /\ cleaned[Len(cleaned)] \notin Terminators
             THEN cleaned \o <<".">>
             ELSE cleaned

cleanAnswer(t) ==
    IF t = <<>> THEN <<>>                                     \* if (!text) return ''
    ELSE LET cleaned == trim(replaceRuns(t, WhiteSpace, " "))
             capital == IF Len(cleaned) > 0
                        THEN <<toUpperChar(cleaned[1])>> \o Tail(cleaned)
                        ELSE cleaned
         IN  IF capital # <<>> /\ capital[Len(capital)] \notin Terminators
             THEN capital \o <<".">>
             ELSE capital

-----------------------------------------------------------------------------
(* The five generators (faqGenerator.js:141-284)                           *)

FAQ(q, a) == [ question |-> q, answer |-> a ]

\* indicators.some(ind => sentence.toLowerCase().includes(ind))
hasIndicator(sentence, indicators) ==
    LET low == toLowerCase(sentence)
    IN  \E n \in 1..Len(indicators) : includes(low, indicators[n])

\* s.toLowerCase().includes(topic.toLowerCase())
mentions(sentence, topic) == includes(toLowerCase(sentence), toLowerCase(topic))

\* Array.prototype.find, given the positions whose element passes the test:
\* the first such element, <<>> (no element is the empty string here) when
\* there is none
find(arr, hits) ==
    IF hits = {} THEN <<>>
    ELSE arr[CHOOSE i \in hits : \A j \in hits : i <= j]

\* `${topics[i]}`: the topic, or the text "undefined" past the end
topicText(tps, i) == IF i <= Len(tps) THEN tps[i] ELSE Undefined

\* topics.slice(0, 3).forEach(...) (faqGenerator.js:144-155), from topic i on
RECURSIVE definitionsFrom(_, _, _)
definitionsFrom(ss, tps, i) ==
    IF i > Len(tps) THEN <<>>
    ELSE LET topic == tps[i]
             relevantSentence == find(ss, { k \in 1..Len(ss) : mentions(ss[k], topic) })
         IN  (IF relevantSentence # <<>>
              THEN << FAQ(WhatIs \o topic \o QMark, cleanAnswer(relevantSentence)) >>
              ELSE <<>>)
             \o definitionsFrom(ss, tps, i + 1)

\* the loop over the first four topics
generateDefinitionFAQsOfFour(ss, tps) == definitionsFrom(ss, slice0(tps, 4), 1)

generateDefinitionFAQs(ss, tps) == definitionsFrom(ss, slice0(tps, 3), 1)

\* sentences.forEach(...) (faqGenerator.js:167-181), from sentence i on
RECURSIVE processFrom(_, _, _)
processFrom(ss, tps, i) ==
    IF i > Len(ss) THEN <<>>
    ELSE LET sentence == ss[i]
             topic == find(tps, { k \in 1..Len(tps) : mentions(sentence, tps[k]) })
         IN  (IF hasIndicator(sentence, processIndicators) /\ topic # <<>>
              THEN << FAQ(HowDoes \o topic \o Work, cleanAnswer(sentence)) >>
              ELSE <<>>)
             \o processFrom(ss, tps, i + 1)

\* the last position of the run \d* that starts at position i
RECURSIVE digitRunEnd(_, _)
digitRunEnd(s, i) ==
    IF i <= Len(s) /\ s[i] \in DigitSet THEN digitRunEnd(s, i + 1) ELSE i - 1

\* the alternative step \d+ of stepPattern, between two word boundaries
testStepNumber(s) ==
    LET low == toLowerCase(s)
    IN  \E i \in 0..(Len(s) - Len(StepSpace)) :
            /\ \A k \in 1..Len(StepSpace) : low[i + k] = StepSpace[k]
            /\ wordBoundary(s, i + 1)
            /\ digitRunEnd(s, i + Len(StepSpace) + 1) > i + Len(StepSpace)
            /\ wordBoundary(s, digitRunEnd(s, i + Len(StepSpace) + 1) + 1)

\* stepPattern.test(s) (faqGenerator.js:184-185)
stepPattern(s) == testWords(s, stepWords) \/ testStepNumber(s)

\* the get-started question pushed before the loop over the sentences
generateProcessFAQsStartedFirst(ss, tps) ==
    LET stepSentences == SelectSeq(ss, stepPattern)
        started ==
            IF Len(stepSentences) > 0 /\ Len(tps) > 0
            THEN << FAQ(GetStarted \o topicText(tps, 1) \o QMark,
                        cleanAnswer(join(slice0(stepSentences, 3), JoinSep))) >>
            ELSE <<>>
    IN  slice0(started \o processFrom(ss, tps, 1), 2)

generateProcessFAQs(ss, tps) ==
    LET stepSentences == SelectSeq(ss, stepPattern)
        started ==
            IF Len(stepSentences) > 0 /\ Len(tps) > 0
            THEN << FAQ(GetStarted \o topicText(tps, 1) \o QMark,
                        cleanAnswer(join(slice0(stepSentences, 3), JoinSep))) >>
            ELSE <<>>
    IN  slice0(processFrom(ss, tps, 1) \o started, 2)

generateFeatureFAQs(ss, tps) ==
    LET featureSentences == SelectSeq(ss, LAMBDA s : hasIndicator(s, featureIndicators))
    IN  IF Len(featureSentences) > 0 /\ Len(tps) > 0
        THEN << FAQ(WhatFeatures \o topicText(tps, 1) \o Offer,
                    cleanAnswer(join(slice0(featureSentences, 2), JoinSep))) >>
        ELSE <<>>

\* the answer made of the first benefit sentence alone
generateBenefitFAQsOfOne(ss, tps) ==
    LET benefitSentences == SelectSeq(ss, LAMBDA s : hasIndicator(s, benefitIndicators))
    IN  IF Len(benefitSentences) > 0 /\ Len(tps) > 0
        THEN << FAQ(WhyUse \o topicText(tps, 1) \o QMark,
                    cleanAnswer(benefitSentences[1])) >>
        ELSE <<>>

generateBenefitFAQs(ss, tps) ==
    LET benefitSentences == SelectSeq(ss, LAMBDA s : hasIndicator(s, benefitIndicators))
    IN  IF Len(benefitSentences) > 0 /\ Len(tps) > 0
        THEN << FAQ(WhyUse \o topicText(tps, 1) \o QMark,
                    cleanAnswer(join(slice0(benefitSentences, 2), JoinSep))) >>
        ELSE <<>>

\* the "Can I..." question (faqGenerator.js:245-256)
canFAQ(ss, tps) ==
    LET canSentences == SelectSeq(ss, LAMBDA s : hasIndicator(s, canIndicators))
        \* topics[1] || topics[0]
        canTopic == IF Len(tps) > 1 /\ tps[2] # <<>> THEN tps[2] ELSE topicText(tps, 1)
    IN  IF Len(canSentences) > 0 /\ Len(tps) > 1
        THEN << FAQ(CanCustomize \o canTopic \o QMark, cleanAnswer(canSentences[1])) >>
        ELSE <<>>

\* the same without the test requireSentences.length > 0: requireSentences[0]
\* is then undefined, which cleanAnswer turns into ''
requirementFAQUnguarded(ss, tps) ==
    LET requireSentences == SelectSeq(ss, LAMBDA s : hasIndicator(s, requireIndicators))
    IN  << FAQ(Requirements \o topicText(tps, 1) \o QMark,
               IF Len(requireSentences) > 0
               THEN cleanAnswer(requireSentences[1]) ELSE <<>>) >>

\* the requirement question (faqGenerator.js:258-269)
requirementFAQ(ss, tps) ==
    LET requireSentences == SelectSeq(ss, LAMBDA s : hasIndicator(s, requireIndicators))
    IN  IF Len(requireSentences) > 0
        THEN << FAQ(Requirements \o topicText(tps, 1) \o QMark,
                    cleanAnswer(requireSentences[1])) >>
        ELSE <<>>

\* the "Where can I..." question (faqGenerator.js:271-281)
locationFAQ(ss, tps) ==
    LET locationSentences == SelectSeq(ss, LAMBDA s : testWords(s, locationWords))
    IN  IF Len(locationSentences) > 0 /\ Len(tps) > 0
        THEN << FAQ(WhereFind \o topicText(tps, 1) \o QMark,
                    cleanAnswer(locationSentences[1])) >>
        ELSE <<>>

generateTopicFAQs(ss, tps) ==
    slice0(canFAQ(ss, tps) \o requirementFAQ(ss, tps) \o locationFAQ(ss, tps), 3)

-----------------------------------------------------------------------------
(* removeDuplicates (faqGenerator.js:312-322)                              *)

\* faq.question.toLowerCase().replace(/[^a-z0-9]/g, '')
normalized(question) ==
    SelectSeq(toLowerCase(question), LAMBDA c : c \in LowerSet \cup DigitSet)

RECURSIVE dedupFrom(_, _, _)
dedupFrom(fs, i, seen) ==
    IF i > Len(fs) THEN <<>>
    ELSE IF normalized(fs[i].question) \in seen
         THEN dedupFrom(fs, i + 1, seen)
         ELSE << fs[i] >> \o dedupFrom(fs, i + 1, seen \cup { normalized(fs[i].question) })

\* a filter that never finds a question seen before
removeDuplicatesKeepAll(fs) == fs

\* a filter that keeps the last question of each key
removeDuplicatesKeepLast(fs) ==
    LET last == ascending({ i \in 1..Len(fs) : \A j \in (i + 1)..Len(fs) :
                                normalized(fs[j].question) # normalized(fs[i].question) })
    IN  [ k \in 1..Len(last) |-> fs[last[k]] ]

removeDuplicates(fs) == dedupFrom(fs, 1, {})

-----------------------------------------------------------------------------
(* generateFAQs (faqGenerator.js:42-77)                                    *)

\* a JavaScript value that is falsy: undefined, null, 0, ''
falsy(v) ==
    \/ v.kind \in { "undefined", "null", "zero" }
    \/ (v.kind = "string" /\ v.chars = <<>>)

\* the test without its typeof part: .trim() is called on whatever is truthy,
\* and a value that is no string has no such method
guardNoTypeCheck(v) ==
    IF falsy(v) THEN "empty"
    ELSE IF v.kind # "string" THEN "threw"
    ELSE IF Len(trim(v.chars)) = 0 THEN "empty"
    ELSE "run"

\* the test of faqGenerator.js:43, evaluated left to right: "empty" when it
\* returns [], "run" when the call goes on ("threw" is what a call of .trim()
\* on a value that is no string would give: the typeof test comes first)
guard(v) ==
    IF falsy(v) THEN "empty"
    ELSE IF v.kind # "string" THEN "empty"
    ELSE IF Len(trim(v.chars)) = 0 THEN "empty"
    ELSE "run"

\* faqs after the five pushes (faqGenerator.js:51-71)
candidates(ss, tps) ==
    generateDefinitionFAQs(ss, tps) \o generateProcessFAQs(ss, tps)
    \o generateFeatureFAQs(ss, tps) \o generateBenefitFAQs(ss, tps)
    \o generateTopicFAQs(ss, tps)

\* the result cut to 5
finishOfFive(fs) == slice0(removeDuplicates(fs), 5)

\* faqGenerator.js:74-76
finish(fs) == slice0(removeDuplicates(fs), 10)

\* the value generateFAQs(v) returns
generateFAQs(v) ==
    IF guard(v) # "run" THEN <<>>
    ELSE LET ss == extractSentences(v.chars)
             tps == identifyTopics(v.chars, extractKeywords(v.chars))
         IN  finish(candidates(ss, tps))

\* this.questionPatterns: the prefix of each entry; its regular expression
\* has the flag i only, so it carries no lastIndex
questionPatterns ==
    << "What is", "How do", "Why", "When", "Where", "Who", "Can I", "Is there" >>

\* new FAQGenerator()
newGenerator == [ questionPatterns |-> questionPatterns, stopWords |-> stopWords ]

\* the value gen.generateFAQs(v) returns
generateFAQsOn(gen, v) ==
    IF guard(v) # "run" THEN <<>>
    ELSE LET ss == extractSentences(v.chars)
             tps == identifyTopics(v.chars, extractKeywordsOf(gen, v.chars))
         IN  finish(candidates(ss, tps))

\* a call that adds the keywords it found to the stop words
thisAfterLearning(gen, v) ==
    IF guard(v) # "run" THEN gen
    ELSE LET found == extractKeywordsOf(gen, v.chars)
         IN  [ gen EXCEPT !.stopWords = @ \cup { found[i] : i \in 1..Len(found) } ]

\* the fields of gen after gen.generateFAQs(v): no statement of the method
\* or of the methods it calls assigns to this, adds to this.stopWords or
\* runs a regular expression that keeps a lastIndex
thisAfter(gen, v) == gen

-----------------------------------------------------------------------------
(* The arguments generateFAQs is called with.                              *)

\* the most fragments in one text
MaxFrags == 2

\* The pieces the input texts are made of.
Fragments ==
    <<
      \* 1: three capitalized phrases, a benefit sentence
      <<
        "A","c","m","e"," ","W","i","d","g","e","t","s"," ","h","e","l","p"," ","S","a","l",
        "e","s"," ","T","e","a","m","s"," ","a","n","d"," ","S","u","p","p","o","r","t"," ",
        "S","t","a","f","f"," ","s","a","v","e"," ","t","i","m","e","."," "
      >>,
      \* 2: a capitalized word of length 3 and one topic
      <<
        "Y","o","u"," ","c","a","n"," ","c","u","s","t","o","m","i","z","e"," ","W","i","d",
        "g","e","t","s"," ","e","a","s","i","l","y","!"," "
      >>,
      \* 3: process and requirement indicators
      <<
        "T","h","e"," ","p","r","o","c","e","s","s"," ","r","e","q","u","i","r","e","s"," ",
        "n","o"," ","s","p","e","c","i","a","l"," ","s","t","e","p","s",","," ","m","e","t",
        "h","o","d",","," ","g","u","i","d","e"," ","o","r"," ","t","u","t","o","r","i","a",
        "l","."," "
      >>,
      \* 4: a requirement sentence with no capitalized phrase and no keyword
      <<
        "y","o","u"," ","m","u","s","t"," ","d","o"," ","i","t"," ","i","f"," ","s","h","e",
        " ","i","s"," ","i","n"," ","i","t"," ","n","o","w","."," "
      >>,
      \* 5: a sentence that starts with a digit, a token made of digits
      <<
        "2","0","2","4"," ","w","i","d","g","e","t","s"," ","n","e","e","d"," ","g","r","e",
        "a","t"," ","c","a","r","e",".",NL
      >>,
      \* 6: a line break inside a capitalized phrase
      <<
        "S","m","a","r","t",NL,"W","i","d","g","e","t","s"," ","s","u","p","p","o","r","t",
        " ","m","a","n","y"," ","o","p","t","i","o","n","s","."," "
      >>,
      \* 7: a piece too short to be a sentence
      <<
        "T","i","n","y"," ","T","e","x","t","."," "
      >>,
      \* 8: a step word and a location word
      <<
        "F","i","r","s","t"," ","y","o","u"," ","f","i","n","d"," ","t","h","e"," ","d","o",
        "w","n","l","o","a","d"," ","p","a","g","e","?"," "
      >>,
      \* 9: white space only
      <<
        " ",NL," "
      >>,
      \* 10: a process and a benefit sentence with no capitalized phrase
      <<
        "e","a","c","h"," ","p","r","o","c","e","s","s"," ","n","e","e","d","s"," ","a"," ",
        "b","e","t","t","e","r"," ","g","u","i","d","e","."," "
      >>,
      \* 11: a step word, a process and a can indicator, one topic
      <<
        "t","h","e","n"," ","y","o","u"," ","c","a","n"," ","d","o"," ","i","t"," ","t","h",
        "e"," ","W","i","d","g","e","t","s"," ","w","a","y","."," "
      >>
    >>

RECURSIVE concat(_)
concat(picks) ==
    IF picks = <<>> THEN <<>> ELSE Fragments[Head(picks)] \o concat(Tail(picks))

Texts ==
    { concat(picks) :
        picks \in UNION { [ 1..n -> 1..Len(Fragments) ] : n \in 0..MaxFrags } }

String(chars) == [ kind |-> "string", chars |-> chars ]

\* undefined, null, 0, a non-zero number, an object, and the strings
Arguments ==
    { [ kind |-> k, chars |-> <<>> ] : k \in { "undefined", "null", "zero", "number", "object" } }
    \cup { String(chars) : chars \in Texts }

\* res.status(status).json(...): the handler, the id of the request, the
\* status, the faqs and the documents of the body, and the arguments the
\* handler passed to faqGenerator.generateFAQs
Response(op, id, status, fs, docs, called) ==
    [ op |-> op, id |-> id, status |-> status, faqs |-> fs, documents |-> docs,
      called |-> called ]

\* no request yet
NoResponse == Response("none", 0, 0, <<>>, <<>>, <<>>)

-----------------------------------------------------------------------------
(* One call of generateFAQs, statement by statement.                       *)

Init ==
    /\ text \in Arguments
    /\ pc = "guard"
    /\ sentences = <<>>
    /\ keywords = <<>>
    /\ topics = <<>>
    /\ faqs = <<>>
    /\ result = <<>>
    /\ generator = newGenerator
    /\ calls = <<>>
    /\ memo = <<>>
    /\ documents = <<>>
    /\ files = <<>>
    /\ now = 0
    /\ nextId = 0
    /\ nextFile = 0
    /\ response = NoResponse

\* faqGenerator.js:43-45
Guard ==
    /\ pc = "guard"
    /\ pc' = CASE guard(text) = "empty" -> "done"
               [] guard(text) = "run" -> "sentences"
               [] OTHER -> "threw"
    /\ result' = <<>>
    /\ UNCHANGED <<text, sentences, keywords, topics, faqs, instance, store>>

\* faqGenerator.js:47
Sentences ==
    /\ pc = "sentences"
    /\ sentences' = extractSentences(text.chars)
    /\ pc' = "keywords"
    /\ UNCHANGED <<text, keywords, topics, faqs, result, instance, store>>

\* faqGenerator.js:48
Keywords ==
    /\ pc = "keywords"
    /\ keywords' = extractKeywords(text.chars)
    /\ pc' = "topics"
    /\ UNCHANGED <<text, sentences, topics, faqs, result, instance, store>>

\* faqGenerator.js:49
Topics ==
    /\ pc = "topics"
    /\ topics' = identifyTopics(text.chars, keywords)
    /\ pc' = "definition"
    /\ UNCHANGED <<text, sentences, keywords, faqs, result, instance, store>>

\* faqGenerator.js:54-55
Definition ==
    /\ pc = "definition"
    /\ faqs' = faqs \o generateDefinitionFAQs(sentences, topics)
    /\ pc' = "process"
    /\ UNCHANGED <<text, sentences, keywords, topics, result, instance, store>>

\* faqGenerator.js:58-59
Process ==
    /\ pc = "process"
    /\ faqs' = faqs \o generateProcessFAQs(sentences, topics)
    /\ pc' = "feature"
    /\ UNCHANGED <<text, sentences, keywords, topics, result, instance, store>>

\* faqGenerator.js:62-63
Feature ==
    /\ pc = "feature"
    /\ faqs' = faqs \o generateFeatureFAQs(sentences, topics)
    /\ pc' = "benefit"
    /\ UNCHANGED <<text, sentences, keywords, topics, result, instance, store>>

\* faqGenerator.js:66-67
Benefit ==
    /\ pc = "benefit"
    /\ faqs' = faqs \o generateBenefitFAQs(sentences, topics)
    /\ pc' = "general"
    /\ UNCHANGED <<text, sentences, keywords, topics, result, instance, store>>

\* faqGenerator.js:70-71
General ==
    /\ pc = "general"
    /\ faqs' = faqs \o generateTopicFAQs(sentences, topics)
    /\ pc' = "return"
    /\ UNCHANGED <<text, sentences, keywords, topics, result, instance, store>>

\* faqGenerator.js:74-76
Return ==
    /\ pc = "return"
    /\ result' = finish(faqs)
    /\ pc' = "done"
    /\ UNCHANGED <<text, sentences, keywords, topics, faqs, instance, store>>

Next ==
    \/ Guard \/ Sentences \/ Keywords \/ Topics \/ Definition
    \/ Process \/ Feature \/ Benefit \/ General \/ Return

Spec == Init /\ [][Next]_vars

\* the stepwise call returns what generateFAQs returns
StepsAgree == pc = "done" => result = generateFAQs(text)

-----------------------------------------------------------------------------
(* One instance of FAQGenerator and the calls made on it.                  *)

\* the most calls made on the instance
MaxCalls == 3

\* the arguments of the calls
CallArguments ==
    { [ kind |-> "undefined", chars |-> <<>> ],
      String(Fragments[1]), String(Fragments[2] \o Fragments[3]),
      String(Fragments[10] \o Fragments[1]), String(Fragments[9]) }

InitCalls ==
    /\ text = [ kind |-> "undefined", chars |-> <<>> ]
    /\ pc = "idle"
    /\ sentences = <<>>
    /\ keywords = <<>>
    /\ topics = <<>>
    /\ faqs = <<>>
    /\ result = <<>>
    /\ generator = newGenerator
    /\ calls = <<>>
    /\ memo = <<>>
    /\ documents = <<>>
    /\ files = <<>>
    /\ now = 0
    /\ nextId = 0
    /\ nextFile = 0
    /\ response = NoResponse

\* faqGenerator.generateFAQs(v) on the one instance of the module
Call(v) ==
    /\ Len(calls) < MaxCalls
    /\ calls' = Append(calls, [ text |-> v, result |-> generateFAQsOn(generator, v) ])
    /\ generator' = thisAfter(generator, v)
    /\ UNCHANGED <<text, pc, sentences, keywords, topics, faqs, result, memo, store>>

NextCalls == \E v \in CallArguments : Call(v)

SpecCalls == InitCalls /\ [][NextCalls]_vars

-----------------------------------------------------------------------------
(* The document store of the server and its request handlers.  A document  *)
(* keeps the fields the handlers read back: id, content, filePath,         *)
(* uploadedAt and faqs; title, filename, contentPreview, wordCount and     *)
(* characterCount are written once and only echoed.  The file system does  *)
(* what it is asked to.                                                    *)

\* the most documents created
MaxDocs == 2

\* the most files received
MaxUploads == 2

\* the latest reading of the clock
MaxTime == 1

\* a value that is undefined
NoValue == [ kind |-> "undefined", chars |-> <<>> ]

\* a text of 50 characters
Text50 ==
    <<
        "A","c","m","e"," ","W","i","d","g","e","t","s"," ","h","e","l","p"," ","e","v","e",
        "r","y"," ","S","a","l","e","s"," ","T","e","a","m"," ","s","a","v","e"," ","m","u",
        "c","h"," ","t","i","m","e","."
    >>

\* a text of 49 characters between white space
Text49 ==
    <<
        " "," ","A","c","m","e"," ","W","i","d","g","e","t","s"," ","h","e","l","p"," ","e",
        "v","e","r","y"," ","S","a","l","e","s"," ","T","e","a","m"," ","s","a","v","e"," ",
        "m","u","c","h"," ","t","i","m","e"," ",NL
    >>

\* req.body.text of POST /api/generate
BodyTexts ==
    { NoValue, [ kind |-> "number", chars |-> <<>> ], String(<<>>),
      String(Fragments[9]), String(Text49), String(Text50) }

\* the uploaded files: what readFileSync(filePath, 'utf-8') reads of each,
\* whether pdfParse resolves, and pdfData.text
Pdfs ==
    <<
      [ raw |->
    <<
        "%","P","D","F","-","1",".","4",NL,"1"," ","0"," ","o","b","j",NL,"<","<"," ","/",
        "L","e","n","g","t","h"," ","5","2"," ",">",">",NL,"s","t","r","e","a","m",NL,"B",
        "T"," ","/","F","1"," ","1","2"," ","T","f"," ","(","A","c","m","e"," ","W","i","d",
        "g","e","t","s",")"," ","T","j"," ","E","T",NL,"e","n","d","s","t","r","e","a","m",
        NL,"e","n","d","o","b","j",NL,"t","r","a","i","l","e","r"," ","<","<"," ","/","R",
        "o","o","t"," ","1"," ","0"," ","R"," ",">",">",NL,"%","%","E","O","F",NL
    >>,
        parsed |-> TRUE,
        text |->
    <<
        NL,NL,"A","c","m","e"," ","W","i","d","g","e","t","s"," ","h","e","l","p"," ","S",
        "a","l","e","s"," ","T","e","a","m","s"," ","a","n","d"," ","S","u","p","p","o","r",
        "t"," ","S","t","a","f","f"," ","s","a","v","e"," ","t","i","m","e",".",NL,"Y","o",
        "u"," ","c","a","n"," ","c","u","s","t","o","m","i","z","e"," ","W","i","d","g","e",
        "t","s"," ","e","a","s","i","l","y","!",NL
    >> ],
      \* pages with no text
      [ raw |->
    <<
        "%","P","D","F","-","1",".","4",NL,"1"," ","0"," ","o","b","j",NL,"<","<"," ","/",
        "S","u","b","t","y","p","e"," ","/","I","m","a","g","e"," ",">",">",NL,"e","n","d",
        "o","b","j",NL,"%","%","E","O","F",NL
    >>,
        parsed |-> TRUE,
        text |-> << NL, NL >> ],
      \* a truncated file
      [ raw |->
    <<
        "%","P","D","F","-","1",".","4",NL,"1"," ","0"," ","o","b","j",NL,"<","<"," ","/",
        "L","e","n","g","t","h"
    >>,
        parsed |-> FALSE,
        text |-> <<>> ]
    >>

\* every argument a handler passes to faqGenerator.generateFAQs
HandlerArguments ==
    BodyTexts \cup { String(Pdfs[p].text) : p \in 1..Len(Pdfs) }
              \cup { String(Pdfs[p].raw) : p \in 1..Len(Pdfs) }

\* what a new instance returns for each of them
Generated == [ v \in HandlerArguments |-> generateFAQsOn(newGenerator, v) ]

\* faqGenerator.generateFAQs(v) in a handler, gen being the fields of the
\* instance at the time of the call.  The value is generateFAQsOn(gen, v):
\* memo holds it, computed in the initial state, for an instance whose
\* fields are those of a new one.
handlerGenerateFAQs(gen, v) ==
    IF gen = newGenerator /\ v \in DOMAIN memo
    THEN memo[v]
    ELSE generateFAQsOn(gen, v)

\* documents.has(id)
has(docs, id) == \E i \in 1..Len(docs) : docs[i].id = id

\* documents.get(id), for an id the Map has
get(docs, id) == docs[CHOOSE i \in 1..Len(docs) : docs[i].id = id]

\* documents.set(id, document): a new key goes last, a key the Map has
\* keeps its place
set(docs, id, document) ==
    IF has(docs, id)
    THEN [ i \in 1..Len(docs) |-> IF docs[i].id = id THEN document ELSE docs[i] ]
    ELSE Append(docs, document)

\* documents.delete(id)
delete(docs, id) == SelectSeq(docs, LAMBDA d : d.id # id)

\* fs.existsSync(path); path 0 is a filePath that is undefined
existsSync(fs, path) == path \in DOMAIN fs

\* fs.unlinkSync(path)
unlinkSync(fs, path) == [ q \in DOMAIN fs \ { path } |-> fs[q] ]

\* the file multer's diskStorage writes before the handler runs
diskStorage(fs, path, p) == [ q \in DOMAIN fs \cup { path } |-> IF q = path THEN p ELSE fs[q] ]

\* what a handler leaves: the response, the Map and the uploads directory
Outcome(res, docs, fs) == [ response |-> res, documents |-> docs, files |-> fs ]

\* documents.set(document.id, document) and the response that carries the
\* faqs of the document; arg is what the handler gave generateFAQs
saved(op, docs, fs, arg, document) ==
    Outcome(Response(op, document.id, 200, document.faqs, <<>>, << arg >>),
            set(docs, document.id, document), fs)

\* POST /api/upload with a file the filter accepts: path is the name
\* diskStorage gave the file, p the file, id and time the values of uuidv4()
\* and new Date() if the handler reads them
uploadKeepsFile(docs, fs, gen, path, p, id, time) ==
    LET stored == diskStorage(fs, path, p)
        content == Pdfs[p].text
    IN  IF ~Pdfs[p].parsed
        THEN Outcome(Response("upload", 0, 500, <<>>, <<>>, <<>>), docs, stored)
        ELSE IF trim(content) = <<>>
        THEN Outcome(Response("upload", 0, 400, <<>>, <<>>, <<>>), docs, stored)
        ELSE saved("upload", docs, stored, String(content),
                   [ id |-> id, content |-> NoValue, filePath |-> path, uploadedAt |-> time,
                     faqs |-> handlerGenerateFAQs(gen, String(content)) ])

upload(docs, fs, gen, path, p, id, time) ==
    LET stored == diskStorage(fs, path, p)
        content == Pdfs[p].text
    IN  IF ~Pdfs[p].parsed
        THEN Outcome(Response("upload", 0, 500, <<>>, <<>>, <<>>), docs, stored)
        ELSE IF trim(content) = <<>>
        THEN Outcome(Response("upload", 0, 400, <<>>, <<>>, <<>>), docs,
                     unlinkSync(stored, path))
        ELSE saved("upload", docs, stored, String(content),
                   [ id |-> id, content |-> NoValue, filePath |-> path, uploadedAt |-> time,
                     faqs |-> handlerGenerateFAQs(gen, String(content)) ])

\* POST /api/upload with no file
uploadNothing(docs, fs) == Outcome(Response("upload", 0, 400, <<>>, <<>>, <<>>), docs, fs)

\* the handler with no least length
generateAnyLength(docs, fs, gen, v, id, time) ==
    IF falsy(v) \/ v.kind # "string" \/ Len(trim(v.chars)) = 0
    THEN Outcome(Response("generate", 0, 400, <<>>, <<>>, <<>>), docs, fs)
    ELSE saved("generate", docs, fs, v,
               [ id |-> id, content |-> v, filePath |-> 0, uploadedAt |-> time,
                 faqs |-> handlerGenerateFAQs(gen, v) ])

\* POST /api/generate with v for req.body.text
generate(docs, fs, gen, v, id, time) ==
    IF falsy(v) \/ v.kind # "string" \/ Len(trim(v.chars)) = 0
    THEN Outcome(Response("generate", 0, 400, <<>>, <<>>, <<>>), docs, fs)
    ELSE IF Len(trim(v.chars)) < 50
    THEN Outcome(Response("generate", 0, 400, <<>>, <<>>, <<>>), docs, fs)
    ELSE saved("generate", docs, fs, v,
               [ id |-> id, content |-> v, filePath |-> 0, uploadedAt |-> time,
                 faqs |-> handlerGenerateFAQs(gen, v) ])

\* docList.sort((a, b) => new Date(b.uploadedAt) - new Date(a.uploadedAt)):
\* a stable sort, entries of one instant keep their order
sortByUploadedAt(docList) ==
    [ k \in 1..Len(docList) |->
        docList[CHOOSE i \in 1..Len(docList) :
            Cardinality({ j \in 1..Len(docList) :
                \/ docList[j].uploadedAt > docList[i].uploadedAt
                \/ (docList[j].uploadedAt = docList[i].uploadedAt /\ j < i) }) = k - 1] ]

\* GET /api/documents
list(docs, fs) ==
    LET docList == [ i \in 1..Len(docs) |->
                       [ id |-> docs[i].id, uploadedAt |-> docs[i].uploadedAt,
                         faqCount |-> Len(docs[i].faqs) ] ]
    IN  Outcome(Response("list", 0, 200, <<>>, sortByUploadedAt(docList), <<>>), docs, fs)

\* GET /api/documents/:id
getDocument(docs, fs, id) ==
    IF ~has(docs, id)
    THEN Outcome(Response("get", id, 404, <<>>, <<>>, <<>>), docs, fs)
    ELSE Outcome(Response("get", id, 200, get(docs, id).faqs, <<>>, <<>>), docs, fs)

\* the handler that answers a missing document like a deleted one
deleteDocumentAlways(docs, fs, id) ==
    IF ~has(docs, id)
    THEN Outcome(Response("delete", id, 200, <<>>, <<>>, <<>>), docs, fs)
    ELSE LET document == get(docs, id)
         IN  Outcome(Response("delete", id, 200, <<>>, <<>>, <<>>),
                     delete(docs, id),
                     IF document.filePath # 0 /\ existsSync(fs, document.filePath)
                     THEN unlinkSync(fs, document.filePath) ELSE fs)

\* the handler that leaves the file
deleteDocumentKeepsFile(docs, fs, id) ==
    IF ~has(docs, id)
    THEN Outcome(Response("delete", id, 404, <<>>, <<>>, <<>>), docs, fs)
    ELSE Outcome(Response("delete", id, 200, <<>>, <<>>, <<>>), delete(docs, id), fs)

\* DELETE /api/documents/:id
deleteDocument(docs, fs, id) ==
    IF ~has(docs, id)
    THEN Outcome(Response("delete", id, 404, <<>>, <<>>, <<>>), docs, fs)
    ELSE LET document == get(docs, id)
         IN  Outcome(Response("delete", id, 200, <<>>, <<>>, <<>>),
                     delete(docs, id),
                     IF document.filePath # 0 /\ existsSync(fs, document.filePath)
                     THEN unlinkSync(fs, document.filePath) ELSE fs)

\* POST /api/documents/:id/regenerate
regenerate(docs, fs, gen, id) ==
    IF ~has(docs, id)
    THEN Outcome(Response("regenerate", id, 404, <<>>, <<>>, <<>>), docs, fs)
    ELSE LET document == get(docs, id)
             content == IF /\ falsy(document.content)
                           /\ document.filePath # 0
                           /\ existsSync(fs, document.filePath)
                        THEN String(Pdfs[fs[document.filePath]].raw)
                        ELSE document.content
         IN  IF falsy(content)
             THEN Outcome(Response("regenerate", id, 400, <<>>, <<>>, <<>>), docs, fs)
             ELSE saved("regenerate", docs, fs, content,
                        [ document EXCEPT !.faqs = handlerGenerateFAQs(gen, content) ])

InitServer ==
    /\ text = NoValue
    /\ pc = "idle"
    /\ sentences = <<>>
    /\ keywords = <<>>
    /\ topics = <<>>
    /\ faqs = <<>>
    /\ result = <<>>
    /\ generator = newGenerator
    /\ calls = <<>>
    /\ memo = Generated
    /\ documents = <<>>
    /\ files = <<>>
    /\ now = 0
    /\ nextId = 0
    /\ nextFile = 0
    /\ response = NoResponse

\* the generator's call and the instance after the calls a handler made
Handled(out) ==
    /\ response' = out.response
    /\ documents' = out.documents
    /\ files' = out.files
    /\ generator' = IF out.response.called = <<>> THEN generator
                    ELSE thisAfter(generator, out.response.called[1])
    /\ nextId' = IF Len(out.documents) > Len(documents) THEN nextId + 1 ELSE nextId
    /\ UNCHANGED <<text, pc, sentences, keywords, topics, faqs, result, calls, memo>>

\* upload.single('file') and the handler of server.js:86-139
Upload(p) ==
    /\ nextId < MaxDocs
    /\ nextFile < MaxUploads
    /\ \E out \in { upload(documents, files, generator, nextFile + 1, p, nextId + 1, now) } : Handled(out)
    /\ nextFile' = nextFile + 1
    /\ UNCHANGED now

UploadNothing ==
    /\ \E out \in { uploadNothing(documents, files) } : Handled(out)
    /\ UNCHANGED <<now, nextFile>>

Generate(v) ==
    /\ nextId < MaxDocs
    /\ \E out \in { generate(documents, files, generator, v, nextId + 1, now) } : Handled(out)
    /\ UNCHANGED <<now, nextFile>>

List ==
    /\ \E out \in { list(documents, files) } : Handled(out)
    /\ UNCHANGED <<now, nextFile>>

GetDocument(id) ==
    /\ \E out \in { getDocument(documents, files, id) } : Handled(out)
    /\ UNCHANGED <<now, nextFile>>

DeleteDocument(id) ==
    /\ \E out \in { deleteDocument(documents, files, id) } : Handled(out)
    /\ UNCHANGED <<now, nextFile>>

Regenerate(id) ==
    /\ \E out \in { regenerate(documents, files, generator, id) } : Handled(out)
    /\ UNCHANGED <<now, nextFile>>

\* a millisecond passes
Tick ==
    /\ now < MaxTime
    /\ now' = now + 1
    /\ UNCHANGED <<text, pc, sentences, keywords, topics, faqs, result, instance,
                   documents, files, nextId, nextFile, response>>

\* the ids of the requests
Ids == 1..MaxDocs

NextServer ==
    \/ \E p \in 1..Len(Pdfs) : Upload(p)
    \/ UploadNothing
    \/ \E v \in BodyTexts : Generate(v)
    \/ List
    \/ \E id \in Ids : GetDocument(id)
    \/ \E id \in Ids : DeleteDocument(id)
    \/ \E id \in Ids : Regenerate(id)
    \/ Tick

SpecServer == InitServer /\ [][NextServer]_vars

-----------------------------------------------------------------------------
(* Properties of generateFAQs and of its stages.                           *)

\* the call went past the guard: text is a string with more than white space
Ran == pc \notin { "guard", "threw" } /\ guard(text) = "run"

\* the normalized key of a question: lower-cased, with every character that
\* is no letter and no digit removed
QuestionKey(q) ==
    SelectSeq(toLowerCase(q), LAMBDA c : c \in LowerSet \cup UpperSet \cup DigitSet)

\* C1: for every input text, the sequence generateFAQs returns has at most 10
\* entries and no two of them have the same normalized question key.
C1_AtMostTenDistinctKeys ==
    pc = "done" =>
        /\ Len(result) <= 10
        /\ \A i, j \in 1..Len(result) :
               i # j => QuestionKey(result[i].question) # QuestionKey(result[j].question)

\* C1 witness: a call has returned after its candidates held two questions
\* with the same key, one of which was dropped.
C1_Witness ==
    /\ pc = "done"
    /\ result # <<>>
    /\ \E i, j \in 1..Len(faqs) :
           i # j /\ QuestionKey(faqs[i].question) = QuestionKey(faqs[j].question)

\* a string that is empty once trimmed: nothing but white space
OnlyWhiteSpace(chars) == \A i \in 1..Len(chars) : chars[i] \in WhiteSpace

\* C2: generateFAQs returns the empty sequence, and throws nothing, when its
\* argument is missing, is not a string, is the empty string or is a string
\* that is empty after trimming.
C2_InvalidInputGivesEmpty ==
    (pc # "guard" /\ (text.kind # "string" \/ OnlyWhiteSpace(text.chars)))
        => (pc = "done" /\ result = <<>>)

\* C2 witness: a call with a truthy argument that is no string has returned.
C2_Witness == pc = "done" /\ text.kind \in { "number", "object" }

\* C3 as stated: every answer of the result ends with '.', '!' or '?' and,
\* if non-empty, begins with an upper-case character.
C3_AnswersCapitalized ==
    pc = "done" =>
        \A i \in 1..Len(result) :
            LET a == result[i].answer
            IN  /\ a # <<>> /\ a[Len(a)] \in Terminators
                /\ a # <<>> => a[1] \in UpperSet

\* C3 amended: every answer of the result ends with '.', '!' or '?' and begins
\* with a character that upper-casing leaves as it is: never a lower-case
\* letter, but a digit where the sentence starts with one.
C3_AnswersTerminatedNotLower ==
    pc = "done" =>
        \A i \in 1..Len(result) :
            LET a == result[i].answer
            IN  /\ a # <<>> /\ a[Len(a)] \in Terminators
                /\ a[1] \notin LowerSet

\* C3 witness: a returned answer begins with a digit, another was capitalized
\* from a sentence that begins with a lower-case letter.
C3_Witness ==
    /\ pc = "done"
    /\ \E i \in 1..Len(result) : result[i].answer[1] \in DigitSet
    /\ \E i \in 1..Len(result) : \E k \in 1..Len(sentences) :
           /\ sentences[k][1] \in LowerSet
           /\ result[i].answer = cleanAnswer(sentences[k])

\* every newline of a text replaced by a space
NewlinesToSpaces(chars) == [ i \in 1..Len(chars) |-> IF chars[i] = NL THEN " " ELSE chars[i] ]

\* C4: replacing the newlines of a text by spaces before the call yields
\* exactly the FAQ sequence of the call on the original text.
C4_NewlinesIrrelevant ==
    (pc = "done" /\ text.kind = "string")
        => result = generateFAQs(String(NewlinesToSpaces(text.chars)))

\* a text from which extractSentences yields nothing: no piece between the
\* delimiters has a trimmed length of 21 or more
NoLongPiece(chars) ==
    LET pieces == splitRuns(replaceRuns(chars, {NL}, " "), Terminators)
    IN  \A i \in 1..Len(pieces) : Len(trim(pieces[i])) < 21

\* C5: for a text from which extractSentences yields no sentence, generateFAQs
\* returns the empty sequence.
C5_NoSentenceNoFAQ ==
    (pc = "done" /\ text.kind = "string" /\ NoLongPiece(text.chars)) => result = <<>>

\* C5 witness: a call on a text with topics but without any sentence went
\* through the generators and has returned.
C5_Witness ==
    /\ pc = "done"
    /\ Ran
    /\ NoLongPiece(text.chars)
    /\ topics # <<>>

\* C6: when the topic list computed for a text is empty, generateFAQs returns
\* no FAQ whose question lacks a topic of the topic list as its subject: it
\* returns none at all, in particular no requirements question.
C6_NoTopicNoQuestion ==
    (pc = "done" /\ Ran /\ topics = <<>>) =>
        \A i \in 1..Len(result) :
            \E k \in 1..Len(topics) : includes(result[i].question, topics[k])

\* how often a token occurs among the filtered words of the text, and where
\* it occurs first
Frequency(w) ==
    Cardinality({ i \in 1..Len(keywordTokens(text.chars)) : keywordTokens(text.chars)[i] = w })
FirstSeen(w) ==
    CHOOSE i \in 1..Len(keywordTokens(text.chars)) :
        /\ keywordTokens(text.chars)[i] = w
        /\ \A j \in 1..(i - 1) : keywordTokens(text.chars)[j] # w

\* the keywords are computed
HasKeywords == Ran /\ pc \notin { "sentences", "keywords" }

\* C7: extractKeywords returns at most 15 distinct tokens ordered by
\* descending frequency, tokens of equal frequency in the order in which the
\* text first has them, tokens made of digits included.
C7_KeywordsByFrequencyThenFirstSeen ==
    HasKeywords =>
        /\ Len(keywords) <= 15
        /\ \A i, j \in 1..Len(keywords) :
               i < j =>
                   /\ keywords[i] # keywords[j]
                   /\ \/ Frequency(keywords[i]) > Frequency(keywords[j])
                      \/ /\ Frequency(keywords[i]) = Frequency(keywords[j])
                         /\ FirstSeen(keywords[i]) < FirstSeen(keywords[j])

\* C8: no token extractKeywords returns is a stop word and none has length 3
\* or less.
C8_NoStopWordNoShortToken ==
    HasKeywords =>
        \A i \in 1..Len(keywords) : keywords[i] \notin stopWords /\ Len(keywords[i]) > 3

\* C8 witness: keywords were returned for a text that has a stop word of more
\* than 3 letters and a word of 3 letters or less.
C8_Witness ==
    /\ HasKeywords
    /\ keywords # <<>>
    /\ LET raw == splitRuns(stripPunctuation(toLowerCase(text.chars)), WhiteSpace)
       IN  /\ \E i \in 1..Len(raw) : raw[i] \in stopWords /\ Len(raw[i]) > 3
           /\ \E i \in 1..Len(raw) : raw[i] # <<>> /\ Len(raw[i]) <= 3

\* the topics are computed
HasTopics == HasKeywords /\ pc # "topics"

\* C9: no two entries of the topic list are equal when compared
\* case-insensitively.
C9_TopicsDistinctIgnoringCase ==
    HasTopics =>
        \A i, j \in 1..Len(topics) :
            i # j => toLowerCase(topics[i]) # toLowerCase(topics[j])

\* a topic that came from a capitalized phrase begins with an upper-case
\* letter; one that came from the keyword list is lower-cased
FromPhrase(topic) == topic[1] \in UpperSet

\* C10: the topic list never has more than 8 entries, and every topic that
\* came from a capitalized phrase precedes every topic that came from the
\* keyword list.
C10_AtMostEightPhrasesFirst ==
    HasTopics =>
        /\ Len(topics) <= 8
        /\ \A i, j \in 1..Len(topics) :
               (FromPhrase(topics[i]) /\ ~FromPhrase(topics[j])) => i < j

\* C10 witness: a full topic list that has topics of both kinds, from a text
\* with more than 8 candidates.
C10_Witness ==
    /\ HasTopics
    /\ Len(topics) = 8
    /\ FromPhrase(topics[1])
    /\ ~FromPhrase(topics[8])
    /\ Len(matchCapitalized(text.chars)) + Len(keywords) > 8

-----------------------------------------------------------------------------
(* Properties of the instance the handlers share.                          *)

-----------------------------------------------------------------------------
(* Properties of the document store.                                       *)

\* the identifiers currently stored
Stored == { documents[i].id : i \in 1..Len(documents) }

\* the stored document of an identifier
StoredDocument(id) == documents[CHOOSE i \in 1..Len(documents) : documents[i].id = id]

\* C12: get, delete and regenerate on an identifier that is not stored each
\* report not-found (404) and leave the stored documents and their FAQ sets
\* unchanged.
C12_UnknownIdNotFound ==
    [][\A id \in Ids :
         (id \notin Stored /\ (GetDocument(id) \/ DeleteDocument(id) \/ Regenerate(id)))
         => (response'.status = 404 /\ response'.id = id /\ documents' = documents)]_vars

\* C12 witness: a request on an identifier that is not stored was answered
\* while another document was stored.
C12_Witness ==
    /\ response.op \in { "get", "delete", "regenerate" }
    /\ response.status = 404
    /\ response.id \notin Stored
    /\ documents # <<>>

\* the text the FAQs of a stored document were first generated from: the
\* pasted text, or the text extracted from the uploaded file
OriginalText(d) ==
    IF d.content.kind = "string" THEN d.content ELSE String(Pdfs[files[d.filePath]].text)

\* C13: regenerating a stored document replaces its FAQ set with the FAQs
\* generated from the text its FAQs were first generated from, for pasted
\* text and for an uploaded PDF alike, so that regenerating right after
\* creation leaves the stored FAQ set as it was.
C13_RegenerateFromSameText ==
    (response.op = "regenerate" /\ response.status = 200)
    => /\ response.id \in Stored
       /\ StoredDocument(response.id).faqs = generateFAQs(OriginalText(StoredDocument(response.id)))
       /\ response.faqs = StoredDocument(response.id).faqs

\* C14: a generate request whose text is missing, is no string, or is shorter
\* than 50 characters after trimming is answered 400 before the generator is
\* called, and adds no document.
C14_ShortTextRejected ==
    [][\A v \in BodyTexts :
         (Generate(v) /\ (v.kind # "string" \/ Len(trim(v.chars)) < 50))
         => /\ response'.status = 400
            /\ response'.called = <<>>
            /\ documents' = documents
            /\ nextId' = nextId]_vars

\* C14 witness: a generate request was rejected after another had stored a
\* document.
C14_Witness ==
    /\ response.op = "generate"
    /\ response.status = 400
    /\ \E i \in 1..Len(documents) : documents[i].content.kind = "string"

C16_ListMostRecentFirst ==
    response.op = "list"
    => /\ Len(response.documents) = Len(documents)
       /\ { response.documents[i].id : i \in 1..Len(response.documents) } = Stored
       /\ \A i, j \in 1..Len(response.documents) :
              i < j => response.documents[i].id > response.documents[j].id

\* C17: an upload whose extracted text is empty or white space only is
\* answered 400, adds no document, and its file is removed from the uploads
\* directory.
C17_EmptyUploadRejected ==
    [][\A p \in 1..Len(Pdfs) :
         (Upload(p) /\ Pdfs[p].parsed /\ \A i \in 1..Len(Pdfs[p].text) : Pdfs[p].text[i] \in WhiteSpace)
         => /\ response'.status = 400
            /\ documents' = documents
            /\ nextId' = nextId
            /\ (nextFile + 1) \notin DOMAIN files'
            /\ files' = files]_vars

\* C17 witness: one file was received, no document was created and no file
\* is left.
C17_Witness ==
    /\ response.op = "upload"
    /\ response.status = 400
    /\ nextFile = 1
    /\ nextId = 0
    /\ files = <<>>

-----------------------------------------------------------------------------
(* Properties of the candidates and of what is kept of them.               *)

\* the candidates whose key no earlier candidate has, in their order
FirstOfEachKey(fs) ==
    LET first == ascending({ i \in 1..Len(fs) : \A j \in 1..(i - 1) :
                                 QuestionKey(fs[j].question) # QuestionKey(fs[i].question) })
    IN  [ k \in 1..Len(first) |-> fs[first[k]] ]

\* C18: the result of generateFAQs is a subsequence of the candidates of the
\* Definition, Process, Feature, Benefit and General generators put together
\* in this order: the order is never changed, and of several candidates with
\* the same normalized key exactly the first is kept.
C18_FirstOfEachKeyInOrder ==
    (pc = "done" /\ Ran)
    => /\ faqs = generateDefinitionFAQs(sentences, topics)
                 \o generateProcessFAQs(sentences, topics)
                 \o generateFeatureFAQs(sentences, topics)
                 \o generateBenefitFAQs(sentences, topics)
                 \o generateTopicFAQs(sentences, topics)
       /\ result = FirstOfEachKey(faqs)

\* C18 witness: two candidates with one key and different answers, with the
\* candidates of other generators after them.
C18_Witness ==
    /\ pc = "done"
    /\ Ran
    /\ \E i, j \in 1..Len(faqs) :
           /\ i < j
           /\ QuestionKey(faqs[i].question) = QuestionKey(faqs[j].question)
           /\ faqs[i].answer # faqs[j].answer
           /\ j < Len(faqs)

\* the sentences with a benefit indicator, in source order
BenefitSentences ==
    SelectSeq(sentences, LAMBDA s : \E n \in 1..Len(benefitIndicators) :
                                       includes(toLowerCase(s), benefitIndicators[n]))

\* C19: whenever a sentence contains a benefit indicator and there is a
\* topic, the result holds the FAQ "Why should I use {topics[0]}?", answered
\* by the cleaned join of the first two benefit sentences in source order.
C19_WhyShouldIUse ==
    (pc = "done" /\ Ran /\ BenefitSentences # <<>> /\ topics # <<>>)
    => \E i \in 1..Len(result) :
           /\ result[i].question = WhyUse \o topics[1] \o QMark
           /\ result[i].answer =
                  cleanAnswer(IF Len(BenefitSentences) = 1 THEN BenefitSentences[1]
                              ELSE BenefitSentences[1] \o JoinSep \o BenefitSentences[2])

\* C19 witness: two different benefit sentences.
C19_Witness ==
    /\ pc = "done"
    /\ Ran
    /\ topics # <<>>
    /\ Len(BenefitSentences) = 2
    /\ BenefitSentences[1] # BenefitSentences[2]

\* the first sentence, in source order, that has the topic as a substring,
\* whatever the case of the letters; <<>> when there is none
FirstSentenceWith(topic) ==
    LET with == { k \in 1..Len(sentences) :
                    includes(toLowerCase(sentences[k]), toLowerCase(topic)) }
    IN  IF with = {} THEN <<>> ELSE sentences[CHOOSE k \in with : \A m \in with : k <= m]

\* the topics among the first three some sentence contains, by position
Defined ==
    ascending({ i \in 1..3 : i <= Len(topics) /\ FirstSentenceWith(topics[i]) # <<>> })

\* C20: the definition generator emits, for each of the first 3 topics in
\* order, "What is {topic}?" answered by the first sentence that contains the
\* topic as a substring whatever the case, and nothing for a topic that no
\* sentence contains: never more than 3 FAQs, never a topic past the third.
C20_DefinitionsOfFirstThree ==
    pc = "process"
    => /\ Len(faqs) = Len(Defined)
       /\ Len(faqs) <= 3
       /\ \A k \in 1..Len(Defined) :
              /\ faqs[k].question = WhatIs \o topics[Defined[k]] \o QMark
              /\ faqs[k].answer = cleanAnswer(FirstSentenceWith(topics[Defined[k]]))

\* C20 witness: more than three topics, one of the first three in no
\* sentence, the fourth in a sentence.
C20_Witness ==
    /\ pc = "process"
    /\ Len(topics) > 3
    /\ FirstSentenceWith(topics[4]) # <<>>
    /\ Len(Defined) \in 1..2

-----------------------------------------------------------------------------
(* Properties of the process and of the general generator.                 *)

\* the sentences, by position, that have a process indicator and contain a
\* topic
HowSentences ==
    ascending({ k \in 1..Len(sentences) :
        /\ \E n \in 1..Len(processIndicators) :
               includes(toLowerCase(sentences[k]), processIndicators[n])
        /\ \E i \in 1..Len(topics) :
               includes(toLowerCase(sentences[k]), toLowerCase(topics[i])) })

\* the first topic a sentence contains
FirstTopicIn(s) ==
    topics[CHOOSE i \in 1..Len(topics) :
              /\ includes(toLowerCase(s), toLowerCase(topics[i]))
              /\ \A j \in 1..(i - 1) : ~includes(toLowerCase(s), toLowerCase(topics[j]))]

\* the sentences that match the step pattern
StepSentences == SelectSeq(sentences, stepPattern)

\* what the process generator added to the candidates
ProcessPart == SubSeq(faqs, Len(Defined) + 1, Len(faqs))

\* C21: the process generator returns at most 2 FAQs, the "How does {topic}
\* work?" FAQs first and in sentence order; "How do I get started with
\* {topics[0]}?" is returned exactly when some sentence matches the step
\* pattern, there is a topic, and fewer than two indicator sentences contain
\* a topic.
C21_ProcessAtMostTwo ==
    pc = "feature"
    => LET how == HowSentences
           kept == IF Len(how) < 2 THEN Len(how) ELSE 2
           started == StepSentences # <<>> /\ topics # <<>> /\ Len(how) < 2
       IN  /\ Len(ProcessPart) <= 2
           /\ Len(ProcessPart) = kept + (IF started THEN 1 ELSE 0)
           /\ \A k \in 1..kept :
                  ProcessPart[k] =
                      FAQ(HowDoes \o FirstTopicIn(sentences[how[k]]) \o Work,
                          cleanAnswer(sentences[how[k]]))
           /\ started => ProcessPart[kept + 1].question = GetStarted \o topics[1] \o QMark

\* C21 witness: two indicator sentences contain a topic and a sentence
\* matches the step pattern, so the get-started FAQ is cut off.
C21_Witness ==
    /\ pc = "feature"
    /\ Len(HowSentences) >= 2
    /\ StepSentences # <<>>
    /\ topics # <<>>
    /\ Len(ProcessPart) = 2

\* the sentences with a can/able/possible/support/allow indicator
CanSentences ==
    SelectSeq(sentences, LAMBDA s : \E n \in 1..Len(canIndicators) :
                                       includes(toLowerCase(s), canIndicators[n]))

\* C22: when some sentence has a can indicator, the general generator emits
\* "Can I customize {topics[1]}?" with two or more topics and "Can I
\* customize {topics[0]}?" with exactly one topic, answered by the first such
\* sentence.
C22_CanCustomizeFallsBack ==
    (pc \in { "return", "done" } /\ CanSentences # <<>> /\ topics # <<>>)
    => \E i \in 1..Len(faqs) :
           faqs[i] = FAQ(CanCustomize \o (IF Len(topics) >= 2 THEN topics[2] ELSE topics[1])
                                      \o QMark,
                         cleanAnswer(CanSentences[1]))

-----------------------------------------------------------------------------
(* Properties of extractSentences and of cleanAnswer.                      *)

\* the text with every run of newlines replaced by one space
Flat(chars) ==
    LET keep == ascending({ i \in 1..Len(chars) :
                    ~(chars[i] = NL /\ i > 1 /\ chars[i - 1] = NL) })
    IN  [ k \in 1..Len(keep) |-> IF chars[keep[k]] = NL THEN " " ELSE chars[keep[k]] ]

\* sentence k and those after it occur one after the other in flat, from
\* position from on
RECURSIVE InOrderFrom(_, _, _)
InOrderFrom(flat, k, from) ==
    IF k > Len(sentences) THEN TRUE
    ELSE LET n == Len(sentences[k])
             at == { q \in from..(Len(flat) - n + 1) :
                       flat[q] = sentences[k][1] /\ SubSeq(flat, q, q + n - 1) = sentences[k] }
         IN  /\ at # {}
             /\ InOrderFrom(flat, k + 1, (CHOOSE q \in at : \A r \in at : q <= r) + n)

C24_CleanAnswerIdempotent ==
    /\ cleanAnswer(<<>>) = <<>>
    /\ text.kind = "string"
       => /\ cleanAnswer(cleanAnswer(text.chars)) = cleanAnswer(text.chars)
          /\ OnlyWhiteSpace(text.chars) => cleanAnswer(text.chars) = <<>>
    /\ \A k \in 1..Len(sentences) :
           cleanAnswer(cleanAnswer(sentences[k])) = cleanAnswer(sentences[k])
    /\ \A k \in 1..Len(faqs) : cleanAnswer(faqs[k].answer) = faqs[k].answer

\* C24 witness: a text that cleaning changes, with a newline, a lower-case
\* first letter and white space at its end.
C24_Witness ==
    /\ text.kind = "string"
    /\ text.chars # <<>>
    /\ \E i \in 1..Len(text.chars) : text.chars[i] = NL
    /\ text.chars[1] \in LowerSet
    /\ cleanAnswer(text.chars) # text.chars
    /\ faqs # <<>>

-----------------------------------------------------------------------------
(* Properties of the candidates as a whole.                                *)

\* C25: the five generators never produce more than 10 candidates together
\* (at most 3 definition, 2 process, 1 feature, 1 benefit, 3 general), so
\* that cutting to 10 drops nothing: the result is the candidates with their
\* duplicates removed.
C25_TruncationDropsNothing ==
    (pc = "done" /\ Ran)
    => /\ Len(generateDefinitionFAQs(sentences, topics)) <= 3
       /\ Len(generateProcessFAQs(sentences, topics)) <= 2
       /\ Len(generateFeatureFAQs(sentences, topics)) <= 1
       /\ Len(generateBenefitFAQs(sentences, topics)) <= 1
       /\ Len(generateTopicFAQs(sentences, topics)) <= 3
       /\ Len(faqs) <= 10
       /\ Len(result) = Cardinality({ QuestionKey(faqs[i].question) : i \in 1..Len(faqs) })
       /\ \A i \in 1..Len(faqs) : \E j \in 1..Len(result) :
              QuestionKey(result[j].question) = QuestionKey(faqs[i].question)

\* C25 witness: more than 5 candidates with different keys.
C25_Witness ==
    /\ pc = "done"
    /\ Ran
    /\ Len(result) > 5
    /\ Len(faqs) > Len(result)

C27_NoDoubledPunctuation ==
    (pc = "done" /\ Ran)
    => \A k \in 1..Len(result) :
           LET a == result[k].answer
           IN  /\ \A i \in 1..(Len(a) - 1) :
                      ~(a[i] \in Terminators /\ a[i + 1] \in Terminators)
               /\ \A i \in 1..Len(a) :
                      a[i] \in Terminators => (a[i] = "." /\ (i = Len(a) \/ a[i + 1] = " "))
               /\ a # <<>> /\ a[Len(a)] = "."

\* C27 witness: an answer joined from two sentences.
C27_Witness ==
    /\ pc = "done"
    /\ Ran
    /\ \E k \in 1..Len(result) :
           Cardinality({ i \in 1..Len(result[k].answer) : result[k].answer[i] = "." }) = 2

====
